---- MODULE Spec2Model ----
(***************************************************************************)
(* Model of the Sol-R flight-stick LED controller: the command-line        *)
(* program solr-cli.py and the interactive program solr-led.py.            *)
(*                                                                         *)
(* Python values are modelled as follows.                                  *)
(*   bytes / str   a sequence of integers 0..255 / of one-character        *)
(*                 strings                                                 *)
(*   dict          a sequence of <<key, value>> pairs with unique keys, in *)
(*                 insertion order (the iteration order of a Python dict)  *)
(*   float         an IEEE-754 double d with 0 <= d < 2^15, held exactly   *)
(*                 as the natural number d * 2^120 written in limbs of     *)
(*                 base 2^15; every double the programs compute is a       *)
(*                 multiple of 2^-120                                      *)
(***************************************************************************)
EXTENDS Integers, Sequences, FiniteSets, TLC

VARIABLES
    program,      \* "cli" (solr-cli.py), "led" (solr-led.py)
    pc,           \* position of main
    args,         \* solr-cli: the parsed command line
    driver,       \* kernel driver of the interface: "attached" / "detached"
    claimed,      \* the USB interface is claimed by the process
    everClaimed,  \* claim_interface has succeeded
    releases,     \* calls of usb.util.release_interface
    attaches,     \* calls of dev.attach_kernel_driver
    leds_to_set,  \* solr-cli: resolved target LEDs
    led_colors,   \* the dict handed to send_led_packet
    base_rgb,     \* breathing: the parsed base colour
    queue,        \* packets of the running send_led_packet not yet written
    sent,         \* packets the running send_led_packet has written
    nWritten,     \* dev.write calls that succeeded, over the whole run
    report,       \* what main printed last / how it ended
    phase,        \* animation: "up" or "down" sweep of the envelope
    cur,          \* animation: frange's local `start`
    started,      \* animation: the running frange has yielded already
    hue,          \* rainbow: the hue
    frame,        \* animation: frames begun
    vhist,        \* animation: brightness used by each frame begun
    hhist,        \* rainbow: hue used by each frame begun
    inputs,       \* solr-led: prompts answered
    hexIn,        \* hex_to_rgb harness: the argument
    hexOut        \* hex_to_rgb harness: the outcome

vars == <<program, pc, args, driver, claimed, everClaimed, releases, attaches,
          leds_to_set, led_colors, base_rgb, queue, sent, nWritten, report,
          phase, cur, started, hue, frame, vhist, hhist, inputs, hexIn, hexOut>>

-----------------------------------------------------------------------------
(* Bounds of the model *)

MaxCliFrames == 2     \* animation frames in the whole-program specification
MaxAnimFrames == 205  \* animation frames in the long-run animation specification
MaxButtons == 3       \* entries of the --buttons list
MaxInputs == 3        \* prompts answered in solr-led
MaxStrLen == 6        \* length of the strings given to hex_to_rgb
MaxEntries == 4       \* entries of the maps given to send_led_packet on its own

-----------------------------------------------------------------------------
(* IEEE-754 double arithmetic, round-to-nearest-even.  A double is held as *)
(* nine limbs of base 2^15, least significant first: limb 9 is the integer *)
(* part, limbs 1..8 the fraction down to 2^-120.                           *)

LimbBase == 2^15

RECURSIVE NormFrom(_, _)
\* carry / borrow propagation; the top limb takes what is left
NormFrom(x, c) ==
    IF Len(x) = 1 THEN <<x[1] + c>>
    ELSE LET t  == x[1] + c
             lo == t % LimbBase
         IN <<lo>> \o NormFrom(Tail(x), (t - lo) \div LimbBase)
Norm(x) == NormFrom(x, 0)

RECURSIVE BitLen(_)
BitLen(n) == IF n = 0 THEN 0 ELSE 1 + BitLen(n \div 2)
RECURSIVE TopLimb(_, _)
TopLimb(x, i) == IF i = 0 THEN 0 ELSE IF x[i] # 0 THEN i ELSE TopLimb(x, i - 1)
\* significant bits of x read as a natural number of units 2^-120
Bits(x) ==
    LET t == TopLimb(x, Len(x))
    IN IF t = 0 THEN 0 ELSE 15 * (t - 1) + BitLen(x[t])
\* bit n of that number (bit 0 the least significant)
Bit(x, n) == (x[(n \div 15) + 1] \div 2^(n % 15)) % 2

\* round an exact value to the nearest double (53 significant bits), ties to even
Round53(x) ==
    LET p == Bits(x) - 53
    IN IF p <= 0 THEN x
       ELSE LET k     == (p \div 15) + 1
                r     == p % 15
                cut(d) == [i \in 1..Len(x) |->
                            IF i < k THEN 0
                            ELSE IF i = k THEN x[i] - (x[i] % 2^r) + d
                            ELSE x[i]]
                up    == /\ Bit(x, p - 1) = 1
                         /\ \/ Bit(x, p) = 1
                            \/ \E m \in 0..(p - 2) : Bit(x, m) = 1
            IN IF up THEN Norm(cut(2^r)) ELSE cut(0)

FAdd(a, b) == Round53(Norm([i \in 1..Len(a) |-> a[i] + b[i]]))
\* a - b for a >= b
FSub(a, b) == Round53(Norm([i \in 1..Len(a) |-> a[i] - b[i]]))
\* float(c) * a for an integer 0 <= c <= 255
FMulInt(c, a) == Round53(Norm([i \in 1..Len(a) |-> c * a[i]]))

RECURSIVE MulRows(_, _, _)
\* sum of the rows j.. of the long multiplication of A by B, five limbs each
MulRows(A, B, j) ==
    IF j > Len(B) THEN [k \in 1..9 |-> 0]
    ELSE LET row  == Norm([k \in 1..9 |->
                            IF k >= j /\ k - j + 1 <= Len(A) THEN B[j] * A[k - j + 1] ELSE 0])
             rest == MulRows(A, B, j + 1)
         IN Norm([k \in 1..9 |-> row[k] + rest[k]])
\* a * b for a, b < 2 that are multiples of 2^-60 (limbs 1..4 are zero)
FMul(a, b) == Round53(MulRows(SubSeq(a, 5, 9), SubSeq(b, 5, 9), 1))

\* int(a): truncation
FInt(a) == a[Len(a)]
\* float(n)
FromInt(n) == [i \in 1..9 |-> IF i = 9 THEN n ELSE 0]

RECURSIVE LtFrom(_, _, _)
LtFrom(a, b, i) ==
    IF i = 0 THEN FALSE ELSE IF a[i] # b[i] THEN a[i] < b[i] ELSE LtFrom(a, b, i - 1)
FLt(a, b) == LtFrom(a, b, Len(a))
FLe(a, b) == a = b \/ FLt(a, b)

\* the float literals of solr-cli.py
F0_0  == FromInt(0)
F1_0  == FromInt(1)
F0_1  == <<0, 0, 0, 0, 6560, 13107, 26214, 3276, 0>>
F0_05 == <<0, 0, 0, 0, 19664, 6553, 13107, 1638, 0>>
F0_01 == <<0, 0, 0, 0, 10486, 7864, 22282, 327, 0>>

-----------------------------------------------------------------------------
(* Static registries *)

\* solr-cli.py BUTTON_TO_LED: button number -> LED id
BUTTON_TO_LED ==
    [b \in {0, 5, 6, 7, 8, 16, 17, 18, 19} |->
        CASE b = 0 -> 0
          [] b = 5 -> 17
          [] b = 6 -> 16
          [] b = 7 -> 18
          [] b = 8 -> 19
          [] b = 16 -> 8
          [] b = 17 -> 7
          [] b = 18 -> 9
          [] b = 19 -> 10]

\* solr-cli.py GROUPS
GROUPS ==
    [g \in {"tm_logo", "upper_circles", "left_buttons", "right_buttons"} |->
        CASE g = "tm_logo" -> <<1, 2, 3>>
          [] g = "upper_circles" -> <<4, 5, 6, 11, 12, 13, 14, 15>>
          [] g = "left_buttons" ->
                <<BUTTON_TO_LED[5], BUTTON_TO_LED[6], BUTTON_TO_LED[7], BUTTON_TO_LED[8]>>
          [] g = "right_buttons" ->
                <<BUTTON_TO_LED[17], BUTTON_TO_LED[16], BUTTON_TO_LED[19], BUTTON_TO_LED[18]>>]

\* solr-led.py LED_IDS (the keys; the labels are only printed)
LED_IDS == 0..19

\* solr-led.py LED_GROUPS
LED_GROUPS ==
    [g \in {"tm_logo", "circle_group", "left_buttons", "right_buttons"} |->
        CASE g = "tm_logo" -> <<1, 2, 3>>
          [] g = "circle_group" -> <<4, 5, 6, 11, 12, 13, 14, 15>>
          [] g = "left_buttons" -> <<17, 16, 18, 19>>
          [] g = "right_buttons" -> <<7, 8, 10, 9>>]

-----------------------------------------------------------------------------
(* Python dict: a sequence of <<key, value>> in insertion order *)

DictKeys(d) == [i \in 1..Len(d) |-> d[i][1]]
DictHas(d, k) == \E i \in 1..Len(d) : d[i][1] = k
DictGet(d, k) == d[CHOOSE i \in 1..Len(d) : d[i][1] = k][2]
\* mutant of DictSet: a list of pairs, appended to without looking for the key
DictSet_M(d, k, v) == Append(d, <<k, v>>)

\* d[k] = v: an existing key keeps its position, a new key goes last
DictSet(d, k, v) ==
    IF DictHas(d, k)
    THEN [i \in 1..Len(d) |-> IF d[i][1] = k THEN <<k, v>> ELSE d[i]]
    ELSE Append(d, <<k, v>>)

RECURSIVE DictSetAll(_, _, _)
\* for k in ks: d[k] = v
DictSetAll(d, ks, v) ==
    IF ks = <<>> THEN d ELSE DictSetAll(DictSet(d, Head(ks), v), Tail(ks), v)

\* {led: color for led in leds}
DictFromLeds(leds, color) == DictSetAll(<<>>, leds, color)

-----------------------------------------------------------------------------
(* send_led_packet: the packets it writes, in order *)

THUMB_HEADER == <<1, 136, 129, 255>>   \* 01 88 81 FF
BATCH_HEADER == <<1, 8, 133, 255>>     \* 01 08 85 FF

\* {k: v for k, v in led_colors.items() if k == 0x00}
thumbstick_colors(d) == SelectSeq(d, LAMBDA e : e[1] = 0)
\* {k: v for k, v in led_colors.items() if k != 0x00}
other_colors(d) == SelectSeq(d, LAMBDA e : e[1] # 0)

\* one packet per thumbstick entry
ThumbPackets(d) ==
    LET t == thumbstick_colors(d)
    IN [i \in 1..Len(t) |-> THUMB_HEADER \o <<t[i][1]>> \o t[i][2]]

\* mutant of KeySlice: keys[i:i+1]
KeySlice_M(keys, i) == SubSeq(keys, i + 1, i + 1)

\* keys[i:i+2] for a 0-based i
KeySlice(keys, i) == SubSeq(keys, i + 1, IF i + 2 <= Len(keys) THEN i + 2 ELSE Len(keys))

RECURSIVE BatchBody(_, _)
\* for led_id, color in batch.items(): packet += bytes([led_id]) + color
BatchBody(o, ks) ==
    IF ks = <<>> THEN <<>>
    ELSE <<Head(ks)>> \o DictGet(o, Head(ks)) \o BatchBody(o, Tail(ks))

\* for i in range(0, len(keys), 2): one packet for keys[i:i+2]
BatchPackets(d) ==
    LET o    == other_colors(d)
        keys == DictKeys(o)
        n    == (Len(keys) + 1) \div 2
    IN [j \in 1..n |-> BATCH_HEADER \o BatchBody(o, KeySlice(keys, 2 * (j - 1)))]

\* mutant of send_led_packet: the batches are written before the thumbstick packet
send_led_packet_M(d) == BatchPackets(d) \o ThumbPackets(d)

send_led_packet(d) == ThumbPackets(d) \o BatchPackets(d)

-----------------------------------------------------------------------------
(* hex_to_rgb *)

HexLower == <<"0", "1", "2", "3", "4", "5", "6", "7", "8", "9", "a", "b", "c", "d", "e", "f">>
HexUpper == <<"0", "1", "2", "3", "4", "5", "6", "7", "8", "9", "A", "B", "C", "D", "E", "F">>
IsHexChar(c) == \E i \in 1..16 : HexLower[i] = c \/ HexUpper[i] = c
HexVal(c) == (CHOOSE i \in 1..16 : HexLower[i] = c \/ HexUpper[i] = c) - 1
IsSpace(c) == c = " "

RECURSIVE SkipSpace(_, _)
\* first position >= i of s holding no whitespace (Len(s) + 1 if none)
SkipSpace(s, i) == IF i <= Len(s) /\ IsSpace(s[i]) THEN SkipSpace(s, i + 1) ELSE i

RECURSIVE FromHexAt(_, _, _)
\* bytes.fromhex: whitespace is skipped before each pair of hexadecimal digits;
\* anything else, or a pair cut short, is a ValueError
FromHexAt(s, i, acc) ==
    LET j == SkipSpace(s, i)
    IN IF j > Len(s) THEN [ok |-> TRUE, val |-> acc]
       ELSE IF ~IsHexChar(s[j]) THEN [ok |-> FALSE, val |-> <<>>]
       ELSE IF j + 1 > Len(s) \/ ~IsHexChar(s[j + 1]) THEN [ok |-> FALSE, val |-> <<>>]
       ELSE FromHexAt(s, j + 2, Append(acc, 16 * HexVal(s[j]) + HexVal(s[j + 1])))

fromhex(s) == FromHexAt(s, 1, <<>>)

\* ok = FALSE: ValueError raised; ok = TRUE: val is the bytes returned
hex_to_rgb(hex_str) ==
    IF Len(hex_str) # 6 THEN [ok |-> FALSE, val |-> <<>>] ELSE fromhex(hex_str)

-----------------------------------------------------------------------------
(* Animation helpers (solr-cli.py) *)

\* mutant of frange_cond: start <= stop whatever the sign of step
frange_cond_M(start, stop, up) == FLe(start, stop)

\* frange's loop condition: start <= stop if step > 0 else start >= stop
frange_cond(start, stop, up) == IF up THEN FLe(start, stop) ELSE FLe(stop, start)

\* frange's `start += step` for step = 0.05 (up) or -0.05 (down)
frange_step(start, up) == IF up THEN FAdd(start, F0_05) ELSE FSub(start, F0_05)

\* The value the for loops of breathing_effect take next: the running frange
\* is resumed (start += step, then the loop condition); when it is exhausted
\* the other for loop begins with a fresh frange, which yields its first value.
NextEnvelope(ph, start, resumed) ==
    LET up == ph = "up"
        s1 == IF resumed THEN frange_step(start, up) ELSE start
        ok == frange_cond(s1, IF up THEN F1_0 ELSE F0_1, up)
    IN IF ok THEN [phase |-> ph, cur |-> s1]
       ELSE IF up THEN [phase |-> "down", cur |-> F1_0]
       ELSE [phase |-> "up", cur |-> F0_1]

\* scaled = bytes([int(c * v) for c in base_rgb])
ScaleColor(rgb, v) == [i \in 1..Len(rgb) |-> FInt(FMulInt(rgb[i], v))]

\* colorsys.hsv_to_rgb(h, s, v) of the standard library for s = 1.0 (the
\* branch for s == 0.0 is not taken)
hsv_to_rgb(h, v) ==
    LET s  == F1_0
        h6 == FMulInt(6, h)
        i  == FInt(h6)
        f  == FSub(h6, FromInt(i))
        p  == FMul(v, FSub(F1_0, s))
        q  == FMul(v, FSub(F1_0, FMul(s, f)))
        t  == FMul(v, FSub(F1_0, FMul(s, FSub(F1_0, f))))
        k  == i % 6
    IN CASE k = 0 -> <<v, t, p>>
         [] k = 1 -> <<q, v, p>>
         [] k = 2 -> <<p, v, t>>
         [] k = 3 -> <<p, q, v>>
         [] k = 4 -> <<t, p, v>>
         [] k = 5 -> <<v, p, q>>

\* r, g, b = colorsys.hsv_to_rgb(hue, 1.0, v)
\* scaled = bytes([int(r * 255), int(g * 255), int(b * 255)])
HsvColor(h, v) ==
    LET c == hsv_to_rgb(h, v)
    IN [i \in 1..3 |-> FInt(FMulInt(255, c[i]))]

\* mutant of HueStep: the hue wraps by hue -= 1.0
HueStep_M(h) ==
    LET n == FAdd(h, F0_01)
    IN IF FLt(F1_0, n) THEN FSub(n, F1_0) ELSE n

\* hue += 0.01; if hue > 1.0: hue = 0.0
HueStep(h) ==
    LET n == FAdd(h, F0_01)
    IN IF FLt(F1_0, n) THEN F0_0 ELSE n

-----------------------------------------------------------------------------
(* solr-cli.py: resolution of --buttons *)

\* a token of args.buttons.split(','): num = int(b.strip()) succeeds, val = its value
NumTok(n) == [num |-> TRUE, val |-> n]
BadTok == [num |-> FALSE, val |-> 0]

\* [int(b.strip()) for b in args.buttons.split(',')]: ValueError on any token
ParseButtons(toks) ==
    IF \E i \in 1..Len(toks) : ~toks[i].num
    THEN [ok |-> FALSE, val |-> <<>>]
    ELSE [ok |-> TRUE, val |-> [i \in 1..Len(toks) |-> toks[i].val]]

RECURSIVE ResolveButtons_M(_, _)
\* mutant of ResolveButtons: an unknown button is skipped
ResolveButtons_M(buttons, acc) ==
    IF buttons = <<>> THEN [ok |-> TRUE, leds |-> acc, bad |-> -1]
    ELSE IF Head(buttons) \notin DOMAIN BUTTON_TO_LED
         THEN ResolveButtons_M(Tail(buttons), acc)
         ELSE ResolveButtons_M(Tail(buttons), Append(acc, BUTTON_TO_LED[Head(buttons)]))

RECURSIVE ResolveButtons(_, _)
\* for b in buttons: unknown -> print and return; else leds_to_set.append(...)
ResolveButtons(buttons, acc) ==
    IF buttons = <<>> THEN [ok |-> TRUE, leds |-> acc, bad |-> -1]
    ELSE IF Head(buttons) \notin DOMAIN BUTTON_TO_LED
         THEN [ok |-> FALSE, leds |-> acc, bad |-> Head(buttons)]
         ELSE ResolveButtons(Tail(buttons), Append(acc, BUTTON_TO_LED[Head(buttons)]))

-----------------------------------------------------------------------------
(* solr-led.py: the prompt loop *)

LowerChar(c) ==
    IF \E i \in 11..16 : HexUpper[i] = c
    THEN HexLower[CHOOSE i \in 11..16 : HexUpper[i] = c]
    ELSE IF c = "G" THEN "g" ELSE c
\* str.lower()
Lower(s) == [i \in 1..Len(s) |-> LowerChar(s[i])]

RECURSIVE Strip(_)
\* str.strip()
Strip(s) ==
    IF s = <<>> THEN s
    ELSE IF IsSpace(Head(s)) THEN Strip(Tail(s))
    ELSE IF IsSpace(s[Len(s)]) THEN Strip(SubSeq(s, 1, Len(s) - 1))
    ELSE s

RECURSIVE ParseHexInt(_, _)
\* int(user_input, 16) on a string of hexadecimal digits
ParseHexInt(s, acc) ==
    IF s = <<>> THEN acc ELSE ParseHexInt(Tail(s), 16 * acc + HexVal(Head(s)))

\* The LEDs an answer to the first prompt selects.  An answer is
\* [group |-> name] with name a key of LED_GROUPS or "" for none, and text,
\* the characters typed (after strip().lower()).
SelectLeds(ans) ==
    IF ans.group \in DOMAIN LED_GROUPS
    THEN [ok |-> TRUE, leds |-> LED_GROUPS[ans.group], msg |-> ""]
    ELSE IF (\A i \in 1..Len(ans.text) : \E j \in 1..16 : HexLower[j] = ans.text[i])
            /\ Len(ans.text) <= 2
    THEN IF ans.text = <<>>
         THEN [ok |-> FALSE, leds |-> <<>>, msg |-> "Invalid LED ID format."]
         ELSE IF ParseHexInt(ans.text, 0) \notin LED_IDS
         THEN [ok |-> FALSE, leds |-> <<>>, msg |-> "Unknown LED ID."]
         ELSE [ok |-> TRUE, leds |-> <<ParseHexInt(ans.text, 0)>>, msg |-> ""]
    ELSE [ok |-> FALSE, leds |-> <<>>, msg |-> "Unknown LED ID or group name."]

-----------------------------------------------------------------------------
(* Inputs *)

RECURSIVE SeqsUpTo(_, _)
\* the sequences over S of length 0..n
SeqsUpTo(S, n) ==
    IF n = 0 THEN {<<>>}
    ELSE LET R == SeqsUpTo(S, n - 1)
         IN R \cup {Append(r, x) : r \in {q \in R : Len(q) = n - 1}, x \in S}

ButtonTokens == {NumTok(0), NumTok(5), NumTok(6), NumTok(99), BadTok}

\* colour arguments: a valid one, one of length 6 holding whitespace, one of
\* length 5, one with a non-hexadecimal character
CliColors ==
    { <<"F", "F", "8", "0", "0", "0">>,
      <<"F", "F", " ", " ", "0", "0">>,
      <<"1", "2", "3", "4", "5">>,
      <<"G", "G", "0", "0", "0", "0">> }

\* The command lines that pass main's argument checks (lines 130-148): a
\* device, exactly one of --group / --buttons, not both animation flags, and a
\* colour unless --rainbow.
CliArgs ==
    { [mode |-> m, group |-> g, buttons |-> b, color |-> c] :
        m \in {"static", "breathing", "rainbow"},
        g \in DOMAIN GROUPS \cup {""},
        b \in SeqsUpTo(ButtonTokens, MaxButtons),
        c \in CliColors \cup {<<>>} }

ValidCliArgs(a) ==
    /\ (a.group = "") # (a.buttons = <<>>)
    /\ (a.mode = "rainbow") = (a.color = <<>>)

\* answers to the first prompt of solr-led.py
LedAnswers ==
    { [group |-> "tm_logo", text |-> <<>>],
      [group |-> "", text |-> <<"0", "0">>],
      [group |-> "", text |-> <<"4">>],
      [group |-> "", text |-> <<"1", "1">>],
      [group |-> "", text |-> <<"1", "f">>],
      [group |-> "", text |-> <<>>],
      [group |-> "", text |-> <<"z", "z">>] }

\* answers to the colour prompt of solr-led.py, as typed
LedColorsTyped ==
    { <<"f", "f", "0", "0", "0", "0">>,
      <<"0", "0", "F", "F", "4", "0", " ">>,
      <<"f", "f", " ", " ", "0", "0">>,
      <<"1", "2", "3">> }

HexAlphabet == {"0", "f", "A", " ", "g"}

NoReport == [msg |-> "", arg |-> -1]
Msg(m) == [msg |-> m, arg |-> -1]

-----------------------------------------------------------------------------
(* Initial states *)

InitCommon ==
    /\ driver \in {"attached", "detached"}
    /\ claimed = FALSE
    /\ everClaimed = FALSE
    /\ releases = 0
    /\ attaches = 0
    /\ leds_to_set = <<>>
    /\ led_colors = <<>>
    /\ base_rgb = <<>>
    /\ queue = <<>>
    /\ sent = <<>>
    /\ nWritten = 0
    /\ report = NoReport
    /\ phase = "up"
    /\ cur = F0_1
    /\ started = FALSE
    /\ hue = F0_0
    /\ frame = 0
    /\ vhist = <<>>
    /\ hhist = <<>>
    /\ inputs = 0
    /\ hexOut = [ok |-> FALSE, val |-> <<>>]

NoArgs == [mode |-> "static", group |-> "", buttons |-> <<>>, color |-> <<>>]

\* either program, any accepted command line
Init ==
    /\ InitCommon
    /\ pc = "start"
    /\ hexIn = <<>>
    /\ \/ program = "cli" /\ args \in {a \in CliArgs : ValidCliArgs(a)}
       \/ program = "led" /\ args = NoArgs

\* solr-cli.py in an animation mode
InitAnim ==
    /\ InitCommon
    /\ pc = "start"
    /\ hexIn = <<>>
    /\ program = "cli"
    /\ args \in { [mode |-> "breathing", group |-> "tm_logo", buttons |-> <<>>,
                   color |-> <<"F", "F", "8", "0", "0", "0">>],
                  [mode |-> "rainbow", group |-> "", buttons |-> <<NumTok(0), NumTok(5)>>,
                   color |-> <<>>] }

-----------------------------------------------------------------------------
(* Actions of main (both programs) *)

usbVars  == <<driver, claimed, everClaimed, releases, attaches>>
sendVars == <<queue, sent, nWritten>>
animVars == <<phase, cur, started, hue, frame, vhist, hhist>>
hexVars  == <<hexIn, hexOut>>

Animated == program = "cli" /\ args.mode \in {"breathing", "rainbow"}

\* if dev.is_kernel_driver_active(INTERFACE): dev.detach_kernel_driver(INTERFACE)
DetachKernelDriver ==
    /\ pc = "start"
    /\ driver' = "detached"
    /\ pc' = "claim"
    /\ UNCHANGED <<program, args, claimed, everClaimed, releases, attaches, leds_to_set,
                   led_colors, base_rgb, report, inputs>>
    /\ UNCHANGED <<sendVars, animVars, hexVars>>

\* detach_kernel_driver raises USBError: solr-cli prints and returns, solr-led
\* lets the exception end the program
DetachFails ==
    /\ pc = "start"
    /\ driver = "attached"
    /\ report' = Msg(IF program = "cli" THEN "Could not detach kernel driver" ELSE "USBError")
    /\ pc' = "done"
    /\ UNCHANGED <<program, args, leds_to_set, led_colors, base_rgb, inputs>>
    /\ UNCHANGED <<usbVars, sendVars, animVars, hexVars>>

\* usb.util.claim_interface(dev, INTERFACE)
ClaimInterface ==
    /\ pc = "claim"
    /\ claimed' = TRUE
    /\ everClaimed' = TRUE
    /\ pc' = IF program = "cli" THEN "resolve" ELSE "prompt"
    /\ UNCHANGED <<program, args, driver, releases, attaches, leds_to_set, led_colors,
                   base_rgb, report, inputs>>
    /\ UNCHANGED <<sendVars, animVars, hexVars>>

\* claim_interface raises USBError, outside any try: the program ends
ClaimFails ==
    /\ pc = "claim"
    /\ report' = Msg("USBError")
    /\ pc' = "done"
    /\ UNCHANGED <<program, args, leds_to_set, led_colors, base_rgb, inputs>>
    /\ UNCHANGED <<usbVars, sendVars, animVars, hexVars>>

\* solr-cli.py lines 166-180: "Determine LEDs to set"
ResolveLeds ==
    /\ pc = "resolve"
    /\ IF args.group # ""
       THEN /\ leds_to_set' = GROUPS[args.group]
            /\ pc' = "try"
            /\ report' = report
       ELSE LET parsed == ParseButtons(args.buttons)
                res    == ResolveButtons(parsed.val, <<>>)
            IN IF ~parsed.ok
               THEN /\ report' = Msg("Invalid button numbers in --buttons argument.")
                    /\ pc' = "done"
                    /\ leds_to_set' = leds_to_set
               ELSE IF ~res.ok
               THEN /\ report' = [msg |-> "Button is not known.", arg |-> res.bad]
                    /\ pc' = "done"
                    /\ leds_to_set' = res.leds
               ELSE /\ leds_to_set' = res.leds
                    /\ pc' = "try"
                    /\ report' = report
    /\ UNCHANGED <<program, args, led_colors, base_rgb, inputs>>
    /\ UNCHANGED <<usbVars, sendVars, animVars, hexVars>>

\* solr-cli.py lines 182-191: the try block up to the first send
EnterMode ==
    /\ pc = "try"
    /\ IF args.mode = "rainbow"
       THEN /\ pc' = "frame"
            /\ UNCHANGED <<base_rgb, led_colors, queue, sent, report>>
       ELSE LET c == hex_to_rgb(args.color)
            IN IF ~c.ok
               THEN /\ report' = Msg("Error: ValueError")
                    /\ pc' = "finally"
                    /\ UNCHANGED <<base_rgb, led_colors, queue, sent>>
               ELSE IF args.mode = "breathing"
               THEN /\ base_rgb' = c.val
                    /\ pc' = "frame"
                    /\ UNCHANGED <<led_colors, queue, sent, report>>
               ELSE /\ led_colors' = DictFromLeds(leds_to_set, c.val)
                    /\ queue' = send_led_packet(led_colors')
                    /\ sent' = <<>>
                    /\ pc' = "send"
                    /\ UNCHANGED <<base_rgb, report>>
    /\ UNCHANGED <<program, args, leds_to_set, nWritten, inputs>>
    /\ UNCHANGED <<usbVars, animVars, hexVars>>

\* One iteration of a for loop of breathing_effect / rainbow_breathing_effect
\* up to the call of send_led_packet.  rainbow_breathing_effect iterates over
\* list(frange(0.1, 1.0, 0.05)) + list(frange(1.0, 0.1, -0.05)), rebuilt each
\* time round its while loop: the values the two for loops of
\* breathing_effect take.
BeginFrame(cap) ==
    /\ pc = "frame"
    /\ frame < cap
    /\ LET e == NextEnvelope(phase, cur, started)
           scaled == IF args.mode = "breathing"
                     THEN ScaleColor(base_rgb, e.cur)
                     ELSE HsvColor(hue, e.cur)
       IN /\ phase' = e.phase
          /\ cur' = e.cur
          /\ started' = TRUE
          /\ vhist' = Append(vhist, e.cur)
          /\ hhist' = IF args.mode = "rainbow" THEN Append(hhist, hue) ELSE hhist
          /\ led_colors' = DictFromLeds(leds_to_set, scaled)
    /\ queue' = send_led_packet(led_colors')
    /\ sent' = <<>>
    /\ frame' = frame + 1
    /\ pc' = "send"
    /\ UNCHANGED <<program, args, leds_to_set, base_rgb, nWritten, report, hue, inputs>>
    /\ UNCHANGED <<usbVars, hexVars>>

\* dev.write(ENDPOINT_OUT, packet, timeout=1000); time.sleep(0.01)
WritePacket ==
    /\ pc = "send"
    /\ queue # <<>>
    /\ sent' = Append(sent, Head(queue))
    /\ queue' = Tail(queue)
    /\ nWritten' = nWritten + 1
    /\ UNCHANGED <<program, pc, args, leds_to_set, led_colors, base_rgb, report, inputs>>
    /\ UNCHANGED <<usbVars, animVars, hexVars>>

\* mutant of WriteFails: the error is reported and the loop goes on to the
\* next packet
WriteFails_M ==
    /\ pc = "send"
    /\ queue # <<>>
    /\ report' = Msg("Error: USBError")
    /\ queue' = Tail(queue)
    /\ UNCHANGED <<program, pc, args, leds_to_set, led_colors, base_rgb, inputs, sent, nWritten>>
    /\ UNCHANGED <<usbVars, animVars, hexVars>>

\* dev.write raises USBError: it leaves send_led_packet and the animation
\* loop (which catches KeyboardInterrupt only) and is caught by main's
\* `except Exception`
WriteFails ==
    /\ pc = "send"
    /\ queue # <<>>
    /\ report' = Msg("Error: USBError")
    /\ pc' = "finally"
    /\ UNCHANGED <<program, args, leds_to_set, led_colors, base_rgb, inputs>>
    /\ UNCHANGED <<usbVars, sendVars, animVars, hexVars>>

\* send_led_packet returns.  Static send: print("LED colors updated.").
\* Animation: time.sleep(0.05), and in rainbow mode the hue advances.
EndSend ==
    /\ pc = "send"
    /\ queue = <<>>
    /\ IF Animated
       THEN /\ hue' = IF args.mode = "rainbow" THEN HueStep(hue) ELSE hue
            /\ pc' = "frame"
            /\ report' = report
       ELSE /\ hue' = hue
            /\ pc' = "finally"
            /\ report' = Msg("LED colors updated.")
    /\ UNCHANGED <<program, args, leds_to_set, led_colors, base_rgb, inputs,
                   phase, cur, started, frame, vhist, hhist>>
    /\ UNCHANGED <<usbVars, sendVars, hexVars>>

\* KeyboardInterrupt: Python raises it in the main thread between two
\* bytecodes or out of time.sleep, wherever the animation is; the effect's
\* `except KeyboardInterrupt` prints and returns to main
Interrupt ==
    /\ Animated
    /\ pc \in {"frame", "send"}
    /\ report' = Msg("stopped by user.")
    /\ pc' = "finally"
    /\ UNCHANGED <<program, args, leds_to_set, led_colors, base_rgb, inputs>>
    /\ UNCHANGED <<usbVars, sendVars, animVars, hexVars>>

\* finally: usb.util.release_interface(dev, INTERFACE)
ReleaseInterface ==
    /\ pc = "finally"
    /\ claimed' = FALSE
    /\ releases' = releases + 1
    /\ pc' = "attach"
    /\ UNCHANGED <<program, args, driver, everClaimed, attaches, leds_to_set, led_colors,
                   base_rgb, report, inputs>>
    /\ UNCHANGED <<sendVars, animVars, hexVars>>

\* finally: try: dev.attach_kernel_driver(INTERFACE) except USBError: pass
AttachKernelDriver ==
    /\ pc = "attach"
    /\ attaches' = attaches + 1
    /\ \E ok \in BOOLEAN : driver' = IF ok THEN "attached" ELSE driver
    /\ pc' = "done"
    /\ UNCHANGED <<program, args, claimed, everClaimed, releases, leds_to_set, led_colors,
                   base_rgb, report, inputs>>
    /\ UNCHANGED <<sendVars, animVars, hexVars>>

-----------------------------------------------------------------------------
(* solr-led.py: the prompt loop, lines 115-150 *)

\* one answer that is not 'done', and the colour typed when it selects LEDs
Prompt ==
    /\ pc = "prompt"
    /\ inputs < MaxInputs
    /\ \E ans \in LedAnswers, typed \in LedColorsTyped :
         LET sel == SelectLeds(ans)
             c   == hex_to_rgb(Lower(Strip(typed)))
         IN IF ~sel.ok
            THEN /\ report' = Msg(sel.msg)
                 /\ led_colors' = led_colors
            ELSE IF ~c.ok
            THEN /\ report' = Msg("ValueError")
                 /\ led_colors' = led_colors
            ELSE /\ report' = Msg("Set LED")
                 /\ led_colors' = DictSetAll(led_colors, sel.leds, c.val)
    /\ inputs' = inputs + 1
    /\ UNCHANGED <<program, pc, args, leds_to_set, base_rgb>>
    /\ UNCHANGED <<usbVars, sendVars, animVars, hexVars>>

\* 'done': return if nothing was selected, else call send_led_packet
PromptDone ==
    /\ pc = "prompt"
    /\ IF led_colors = <<>>
       THEN /\ report' = Msg("No LEDs selected. Exiting.")
            /\ pc' = "finally"
            /\ UNCHANGED <<queue, sent>>
       ELSE /\ queue' = send_led_packet(led_colors)
            /\ sent' = <<>>
            /\ pc' = "send"
            /\ report' = report
    /\ UNCHANGED <<program, args, leds_to_set, led_colors, base_rgb, nWritten, inputs>>
    /\ UNCHANGED <<usbVars, animVars, hexVars>>

-----------------------------------------------------------------------------
(* hex_to_rgb on its own *)

\* any string of at most MaxStrLen characters of HexAlphabet
InitHex ==
    /\ InitCommon
    /\ program = "hex"
    /\ args = NoArgs
    /\ pc = "hex"
    /\ hexIn \in SeqsUpTo(HexAlphabet, MaxStrLen)

\* hexOut = hex_to_rgb(hexIn)
HexToRgb ==
    /\ pc = "hex"
    /\ hexOut' = hex_to_rgb(hexIn)
    /\ pc' = "done"
    /\ UNCHANGED <<program, args, leds_to_set, led_colors, base_rgb, report, inputs, hexIn>>
    /\ UNCHANGED <<usbVars, sendVars, animVars>>

-----------------------------------------------------------------------------
(* send_led_packet on its own *)

SendKeys == {0, 1, 4, 5, 17}
SendColors == {<<255, 0, 0>>, <<0, 255, 64>>}

\* the dicts of at most MaxEntries entries over SendKeys, in every order
SendMaps ==
    { d \in SeqsUpTo(SendKeys \X SendColors, MaxEntries) :
        \A i, j \in 1..Len(d) : i # j => d[i][1] # d[j][1] }

InitSend ==
    /\ InitCommon
    /\ program = "send"
    /\ args = NoArgs
    /\ pc = "call"
    /\ hexIn = <<>>
    /\ driver = "detached"

\* send_led_packet(dev, d) is entered
CallSend ==
    /\ pc = "call"
    /\ \E d \in SendMaps :
         /\ led_colors' = d
         /\ queue' = send_led_packet(d)
    /\ sent' = <<>>
    /\ pc' = "send"
    /\ UNCHANGED <<program, args, leds_to_set, base_rgb, nWritten, report, inputs>>
    /\ UNCHANGED <<usbVars, animVars, hexVars>>

\* send_led_packet returns
ReturnSend ==
    /\ pc = "send"
    /\ queue = <<>>
    /\ pc' = "done"
    /\ UNCHANGED <<program, args, leds_to_set, led_colors, base_rgb, report, inputs>>
    /\ UNCHANGED <<usbVars, sendVars, animVars, hexVars>>

-----------------------------------------------------------------------------
(* Specifications *)

MainSteps ==
    \/ DetachKernelDriver
    \/ DetachFails
    \/ ClaimInterface
    \/ ClaimFails
    \/ ResolveLeds
    \/ EnterMode
    \/ WritePacket
    \/ WriteFails
    \/ EndSend
    \/ Interrupt
    \/ ReleaseInterface
    \/ AttachKernelDriver

CliFrame == BeginFrame(MaxCliFrames)
AnimFrame == BeginFrame(MaxAnimFrames)

Next == MainSteps \/ CliFrame \/ Prompt \/ PromptDone
NextAnim == MainSteps \/ AnimFrame
NextHex == HexToRgb
NextSend == CallSend \/ WritePacket \/ WriteFails \/ ReturnSend

\* both programs, every accepted input, a few animation frames
Spec == Init /\ [][Next]_vars
\* solr-cli.py animating for many frames
SpecAnim == InitAnim /\ [][NextAnim]_vars
\* hex_to_rgb on every short string
SpecHex == InitHex /\ [][NextHex]_vars
\* send_led_packet on every small dict
SpecSend == InitSend /\ [][NextSend]_vars

-----------------------------------------------------------------------------
(* Claims *)

\* the running send_led_packet has written every packet
SendComplete == pc = "send" /\ queue = <<>>

Header(p) == SubSeq(p, 1, 4)
\* the entries of d whose LedId is not 0x00, in iteration order
NonThumb(d) == SelectSeq(d, LAMBDA e : e[1] # 0)
\* the batch packets among ps, in order
Batches(ps) == SelectSeq(ps, LAMBDA p : Header(p) = BATCH_HEADER)
Entry(e) == <<e[1]>> \o e[2]

\* C1: a send over a map with N entries other than LedId 0x00 writes exactly
\* ceil(N/2) packets with header 01 08 85 FF; the k-th of them is the header
\* followed by entries 2k-1 and 2k of the non-thumbstick entries taken in
\* iteration order (LedId byte, then 3 colour bytes), and only the last one
\* may hold a single entry.
C1_BatchPackets ==
    SendComplete =>
        LET o == NonThumb(led_colors)
            N == Len(o)
            B == Batches(sent)
        IN /\ Len(B) = (N + 1) \div 2
           /\ \A k \in 1..Len(B) :
                /\ B[k] = BATCH_HEADER \o Entry(o[2 * k - 1])
                             \o (IF 2 * k <= N THEN Entry(o[2 * k]) ELSE <<>>)
                /\ Len(B[k]) = IF 2 * k <= N THEN 12 ELSE 8
                /\ Len(B[k]) = 8 => k = Len(B)

\* C1 witness: a send of three non-thumbstick entries has completed, its
\* second batch packet holding one entry
C1_Witness ==
    /\ SendComplete
    /\ Len(NonThumb(led_colors)) = 3
    /\ Len(Batches(sent)) = 2
    /\ Len(Batches(sent)[2]) = 8

\* C2: when the map holds LedId 0x00, at any position, the first packet
\* written is 01 88 81 FF 00 and the entry's colour; no later packet has that
\* header, every later packet has the batch header, and no LedId position of
\* a batch packet holds 0x00.
C2_ThumbFirst ==
    (pc \in {"send", "finally", "done"} /\ DictHas(led_colors, 0)) =>
        /\ SendComplete => Len(sent) >= 1
        /\ Len(sent) >= 1 => sent[1] = THUMB_HEADER \o <<0>> \o DictGet(led_colors, 0)
        /\ \A i \in 2..Len(sent) :
             /\ Header(sent[i]) = BATCH_HEADER
             /\ sent[i][5] # 0
             /\ Len(sent[i]) > 8 => sent[i][9] # 0

\* C2 witness: a completed send of a map whose 0x00 entry is not the first
C2_Witness ==
    /\ SendComplete
    /\ DictHas(led_colors, 0)
    /\ led_colors[1][1] # 0
    /\ Len(sent) >= 3

\* every colour of the map is exactly 3 bytes
IsLedColorMap(d) == \A i \in 1..Len(d) : Len(d[i][2]) = 3

RECURSIVE Payload(_)
\* the bytes after the 4-byte headers of the packets, concatenated
Payload(ps) == IF ps = <<>> THEN <<>> ELSE SubSeq(Head(ps), 5, Len(Head(ps))) \o Payload(Tail(ps))

\* the (LedId, colour) entries read off the packets, 4 bytes each
EntriesOf(ps) ==
    LET b == Payload(ps)
    IN [i \in 1..(Len(b) \div 4) |-> <<b[4 * i - 3], SubSeq(b, 4 * i - 2, 4 * i)>>]

\* C10: over the packets of one completed send, every LedId of the map
\* appears in exactly one entry, with the colour the map gives it, and there
\* is no other entry; the map has one entry per LED of the target list,
\* however often the list names it.
C10_EachLedOnce ==
    (SendComplete /\ IsLedColorMap(led_colors)) =>
        LET es == EntriesOf(sent)
        IN /\ Len(Payload(sent)) = 4 * Len(es)
           /\ Len(es) = Len(led_colors)
           /\ \A i \in 1..Len(led_colors) :
                /\ Cardinality({j \in 1..Len(es) : es[j][1] = led_colors[i][1]}) = 1
                /\ \E j \in 1..Len(es) : es[j] = led_colors[i]
           /\ program = "cli" =>
                \A l \in 1..Len(leds_to_set) :
                    Cardinality({j \in 1..Len(es) : es[j][1] = leds_to_set[l]}) = 1

\* C10 witness: solr-cli completed a send for a --buttons list naming one
\* LED twice
C10_Witness ==
    /\ SendComplete
    /\ program = "cli"
    /\ IsLedColorMap(led_colors)
    /\ Len(leds_to_set) > Len(led_colors)

\* C3, as claimed: solr-cli writes no packet before the interface is claimed,
\* and whenever main has ended after claiming it, release_interface and
\* attach_kernel_driver have each been called.
C3_ReleasedOnEveryExit ==
    program = "cli" =>
        /\ nWritten > 0 => everClaimed
        /\ (pc = "done" /\ everClaimed) => (releases = 1 /\ attaches = 1)

\* a dev.write failed on the second packet of a send
FailedOnSecond == report.msg = "Error: USBError" /\ Len(sent) = 1 /\ queue # <<>>

C5_StopsAtFrameBoundary ==
    report.msg = "stopped by user." => Len(queue) = 0

\* C6: the brightness of the n-th frame (n = 0, 1, ...) is 0.1 for n a
\* multiple of 36 and for no other n, is 1.0 for n = 18 mod 36, rises over
\* the 18 frames before that and falls over the 18 frames after, stays within
\* [0.1, 1.0], and equals that of frame n - 36.
C6_Envelope ==
    \A f \in 1..Len(vhist) :
        LET n == (f - 1) % 36
        IN /\ FLe(F0_1, vhist[f]) /\ FLe(vhist[f], F1_0)
           /\ (n = 0) = (vhist[f] = F0_1)
           /\ n = 18 => vhist[f] = F1_0
           /\ f > 36 => vhist[f] = vhist[f - 36]
           /\ (f > 1 /\ n \in 1..18) => FLt(vhist[f - 1], vhist[f])
           /\ (f > 1 /\ n \in 19..35) => FLt(vhist[f], vhist[f - 1])

\* C6 witness: the breathing loop has begun its 73rd frame, two full periods
\* after the first
C6_Witness ==
    /\ args.mode = "breathing"
    /\ Len(vhist) = 73
    /\ vhist[73] = F0_1
    /\ vhist[55] = F1_0

\* C7: the hue colouring the n-th rainbow frame is 0.0 for n a multiple of
\* 100, the previous frame's hue plus 0.01 otherwise, and always in
\* [0.0, 1.0); in particular it is not reset at frames 36, 72, ... where the
\* brightness envelope starts over.
C7_Hue ==
    \A f \in 1..Len(hhist) :
        /\ FLe(F0_0, hhist[f]) /\ FLt(hhist[f], F1_0)
        /\ ((f - 1) % 100 = 0) = (hhist[f] = F0_0)
        /\ (f - 1) % 100 # 0 => hhist[f] = FAdd(hhist[f - 1], F0_01)

\* C7 witness: the rainbow loop has begun its 201st frame, the hue back at
\* 0.0 for the second time, after five periods of the envelope
C7_Witness ==
    /\ args.mode = "rainbow"
    /\ Len(hhist) = 201
    /\ hhist[201] = F0_0
    /\ hhist[101] = F0_0
    /\ hhist[181] # F0_0

\* the string is exactly six hexadecimal digits
SixHexDigits(str) == Len(str) = 6 /\ \A i \in 1..6 : IsHexChar(str[i])
Pair(str, i) == 16 * HexVal(str[2 * i - 1]) + HexVal(str[2 * i])

\* C8, as claimed: hex_to_rgb returns a value exactly for the strings of six
\* hexadecimal digits, and the value is the three decoded pairs.
C8_SixDigitsOnly ==
    pc = "done" =>
        /\ hexOut.ok = SixHexDigits(hexIn)
        /\ hexOut.ok => hexOut.val = <<Pair(hexIn, 1), Pair(hexIn, 2), Pair(hexIn, 3)>>

\* the --buttons list names a number BUTTON_TO_LED does not map
HasUnknown(toks) == \E i \in 1..Len(toks) : toks[i].num /\ toks[i].val \notin DOMAIN BUTTON_TO_LED
AllNumeric(toks) == \A i \in 1..Len(toks) : toks[i].num
FirstUnknown(toks) ==
    toks[CHOOSE i \in 1..Len(toks) :
            /\ toks[i].val \notin DOMAIN BUTTON_TO_LED
            /\ \A j \in 1..(i - 1) : toks[j].val \in DOMAIN BUTTON_TO_LED].val

====
